---- MODULE Spec2Model ----
(***************************************************************************)
(* django_resized/image_processing.py: the image processing factories     *)
(* (single-frame and animated GIF), the compositing loops thumbnails /    *)
(* cropped_thumbnails / clone_gif_thumbnails, analyseImage and the        *)
(* dispatcher make_factory_for_image_processing.                          *)
(*                                                                         *)
(* The codec (PIL) is outside the repository.  What the model takes from  *)
(* it, at the places the source calls it:                                  *)
(*  - a decoded image is one object with a frame cursor; seek(k) moves    *)
(*    the cursor, sets the tile descriptor and the palette of frame k;    *)
(*    seek to the current frame does nothing; seek past the end raises    *)
(*    EOFError and leaves the object as it was;                           *)
(*  - load() (and so convert() and getpalette()) decodes the current      *)
(*    frame and empties im.tile;                                           *)
(*  - ImageSequence.Iterator(img) yields img itself, sought to frames     *)
(*    0, 1, ... until EOFError;                                            *)
(*  - a decoded frame is canvas sized: inside the frame's tile box it     *)
(*    holds the frame's own pixels, outside it the pixels of the frame    *)
(*    decoded before it (nothing before frame 0);                          *)
(*  - img.info['duration'] is the delay of the frame under the cursor,    *)
(*    img.info['loop'] the animation's loop count;                         *)
(*  - resize to a size with a dimension < 1 raises ValueError;            *)
(*  - the GIF encoder writes one frame per image handed to it.            *)
(* Pixels: 0 is transparent, colour k > 0 was painted by frame k-1.       *)
(* Optional values: <<>> is None, <<x>> is the value x.                   *)
(***************************************************************************)
EXTENDS Integers, Sequences, FiniteSets, TLC

\* ---- bounds and input sets ----------------------------------------------
MaxFrames == 3

Canvas == <<2, 1>>
TargetSizes == {<<0, 1>>, <<1, 2>>}
\* centering in halves: <<1, 1>> is (0.5, 0.5); <<>> is None or an empty tuple
Centerings == {<<>>, <<1, 1>>}
CropBoxes == {<<1, 0, 3, 1>>}

None == <<>>
Some(x) == <<x>>

\* ---- geometry and pixel buffers ----------------------------------------
Coords(size) == (0 .. size[1] - 1) \X (0 .. size[2] - 1)

InBox(p, box) == /\ box[1] <= p[1] /\ p[1] < box[3]
                 /\ box[2] <= p[2] /\ p[2] < box[4]

BoxCoords(box) == {p \in (box[1] .. box[3] - 1) \X (box[2] .. box[4] - 1) : TRUE}

FullBox(size) == <<0, 0, size[1], size[2]>>

\* Image.new('RGBA', size): a fully transparent buffer
NewRGBA(size) == [size |-> size, pix |-> [p \in Coords(size) |-> 0]]

\* dst.paste(src): src copied over dst at (0, 0), transparent pixels included
Paste(dst, src) ==
    [dst EXCEPT !.pix = [p \in Coords(dst.size) |->
        IF p \in Coords(src.size) THEN src.pix[p] ELSE dst.pix[p]]]

\* dst.paste(src, (0, 0), mask): src copied where the mask is opaque
PasteMask(dst, src, mask) ==
    [dst EXCEPT !.pix = [p \in Coords(dst.size) |->
        IF p \in Coords(src.size) /\ mask.pix[p] # 0 THEN src.pix[p] ELSE dst.pix[p]]]

\* ---- the decoded image object ------------------------------------------
NumFrames(img) == Len(img.frames)

RECURSIVE Decoded(_, _, _)
Decoded(frames, size, i) ==
    LET f == frames[i + 1]
    IN  [p \in Coords(size) |->
            IF InBox(p, f.box) THEN f.data[p]
            ELSE IF i = 0 THEN 0
            ELSE Decoded(frames, size, i - 1)[p]]

\* img.convert('RGBA'): the current frame as an RGBA buffer
ConvertRGBA(img) == [size |-> img.size, pix |-> Decoded(img.frames, img.size, img.cursor)]

\* img.load(): the current frame is decoded and im.tile emptied
Load(img) == [img EXCEPT !.tile = FALSE]

CanSeek(img, k) == k >= 0 /\ k < NumFrames(img)

\* img.seek(k) for a frame that exists
Seek(img, k) ==
    IF k = img.cursor THEN img
    ELSE [img EXCEPT !.cursor = k, !.tile = TRUE, !.palette = img.frames[k + 1].palette]

\* img.info.get('duration'), img.info.get('loop')
InfoDuration(img) == img.frames[img.cursor + 1].duration
InfoLoop(img) == img.loop

\* ---- the codec's geometric primitives ----------------------------------
BadSize(size) == size[1] < 1 \/ size[2] < 1

Max(a, b) == IF a >= b THEN a ELSE b

Raised(frame) == [ok |-> FALSE, frame |-> frame]
Returned(frame) == [ok |-> TRUE, frame |-> frame]

\* frame.resize(size, method): ValueError for a size with a dimension < 1
Resize(frame, size) ==
    IF BadSize(size) THEN Raised(frame)
    ELSE Returned([size |-> size, pix |-> [p \in Coords(size) |->
            frame.pix[<<((2 * p[1] + 1) * frame.size[1]) \div (2 * size[1]),
                        ((2 * p[2] + 1) * frame.size[2]) \div (2 * size[2])>>]]])

\* frame.crop(box): the rectangle, padded with empty pixels beyond the image
Crop(frame, box) ==
    LET size == <<box[3] - box[1], box[4] - box[2]>>
    IN  [size |-> size, pix |-> [p \in Coords(size) |->
            LET q == <<p[1] + box[1], p[2] + box[2]>>
            IN  IF q \in Coords(frame.size) THEN frame.pix[q] ELSE 0]]

\* ImageOps.fit(frame, size, method, centering=centering): always `size`
ImageOps_fit(frame, size, centering) ==
    IF Len(centering) # 2 \/ BadSize(size) THEN Raised(frame)
    ELSE LET w == frame.size[1]
             h == frame.size[2]
             sw == size[1]
             sh == size[2]
             wide == w * sh >= sw * h
         IN  Returned([size |-> size, pix |-> [p \in Coords(size) |->
                 frame.pix[
                   IF wide
                   THEN <<((w * sh - sw * h) * centering[1] + (2 * p[1] + 1) * h) \div (2 * sh),
                          ((2 * p[2] + 1) * h) \div (2 * sh)>>
                   ELSE <<((2 * p[1] + 1) * w) \div (2 * sw),
                          ((h * sw - w * sh) * centering[2] + (2 * p[2] + 1) * w) \div (2 * sw)>>]]])

\* the size Image.thumbnail settles on: aspect preserved, never larger
ThumbnailSize(cur, size) ==
    LET x1 == IF cur[1] > size[1] THEN size[1] ELSE cur[1]
        y1 == IF cur[1] > size[1] THEN Max((cur[2] * size[1]) \div cur[1], 1) ELSE cur[2]
        x2 == IF y1 > size[2] THEN Max((x1 * size[2]) \div y1, 1) ELSE x1
        y2 == IF y1 > size[2] THEN size[2] ELSE y1
    IN  <<x2, y2>>

\* frame.thumbnail(size, method)
Thumbnail(frame, size) ==
    LET ns == ThumbnailSize(frame.size, size)
    IN  IF ns = frame.size THEN Returned(frame) ELSE Resize(frame, ns)

\* ---- analyseImage --------------------------------------------------------
\* tile[1][2:] of the current frame
UpdateRegionDimensions(im) ==
    LET update_region == im.frames[im.cursor + 1].box
    IN  <<update_region[3], update_region[4]>>

RECURSIVE analyseImage(_)
analyseImage(im) ==
    IF im.tile /\ UpdateRegionDimensions(im) # im.size
    THEN [mode |-> "partial", im |-> im]
    ELSE IF ~CanSeek(im, im.cursor + 1)
    THEN [mode |-> "full", im |-> im]
    ELSE analyseImage(Seek(im, im.cursor + 1))

\* ---- the compositing loops ----------------------------------------------
\* `if centering:` -- None and the empty tuple are both false
Truthy(centering) == Len(centering) > 0

\* slip: iteration resumes from wherever the cursor is
IteratorStartAtCursor(img) == img.cursor

\* ImageSequence.Iterator(img): iteration starts at frame 0
IteratorStart(img) == 0

\* slip: the running canvas is pasted in full mode too
BackgroundAlwaysPasted(mode, last_frame, size) == Paste(NewRGBA(size), last_frame)

\* lines 61-63: the buffer the frame is pasted on
Background(mode, last_frame, size) ==
    IF mode = "partial" THEN Paste(NewRGBA(size), last_frame) ELSE NewRGBA(size)

\* slip: the running canvas is taken after the transform
NextLastFrameTransformed(new_frame, transformed) == transformed

\* line 65: last_frame = new_frame.copy(), taken before the transform
NextLastFrame(new_frame, transformed) == new_frame

\* lines 66-74 (thumbnails), 93 (cropped_thumbnails), nothing (clone_gif_thumbnails)
Transform(xf, new_frame) ==
    CASE xf.kind = "thumbnails" ->
            IF Truthy(xf.centering)
            THEN ImageOps_fit(new_frame, xf.size, xf.centering)
            ELSE Thumbnail(new_frame, xf.size)
      [] xf.kind = "cropped" -> Returned(Crop(new_frame, xf.box))
      [] OTHER -> Returned(new_frame)

\* the body of `for frame in frames:` from frame i on
RECURSIVE FrameLoop(_, _, _, _, _)
FrameLoop(st, i, mode, p, xf) ==
    IF ~CanSeek(st.im, i) THEN st
    ELSE LET sought == Seek(st.im, i)
             lacks == sought.palette = None
         IN  IF lacks /\ p = None
             THEN [st EXCEPT !.im = Load(sought), !.err = "TypeError"]
             ELSE LET frame == Load([sought EXCEPT !.palette = IF lacks THEN p ELSE @])
                      rgba == ConvertRGBA(frame)
                      new_frame == PasteMask(Background(mode, st.last_frame, frame.size),
                                             rgba, rgba)
                      t == Transform(xf, new_frame)
                  IN  IF ~t.ok
                      THEN [st EXCEPT !.im = frame,
                                      !.last_frame = new_frame,
                                      !.composited = Append(@, new_frame),
                                      !.err = "ValueError"]
                      ELSE FrameLoop([im |-> frame,
                                      last_frame |-> NextLastFrame(new_frame, t.frame),
                                      composited |-> Append(st.composited, new_frame),
                                      all_frames |-> Append(st.all_frames, t.frame),
                                      err |-> ""],
                                     i + 1, mode, p, xf)

\* lines 53-57 and the loop: what the three functions share
Compose(img, xf) ==
    LET last_frame == ConvertRGBA(img)
        p == Load(img).palette
        a == analyseImage(Load(img))
        r == FrameLoop([im |-> a.im, last_frame |-> last_frame, composited |-> <<>>,
                        all_frames |-> <<>>, err |-> ""],
                       IteratorStart(a.im), a.mode, p, xf)
    IN  [mode |-> a.mode, im |-> r.im, composited |-> r.composited,
         all_frames |-> r.all_frames, err |-> r.err]

thumbnails(img, size, centering) ==
    Compose(img, [kind |-> "thumbnails", size |-> size, centering |-> centering, box |-> None])

cropped_thumbnails(img, box) ==
    Compose(img, [kind |-> "cropped", size |-> None, centering |-> None, box |-> box])

clone_gif_thumbnails(img) ==
    Compose(img, [kind |-> "clone", size |-> None, centering |-> None, box |-> None])

\* ---- the encoder and Image.open ------------------------------------------
\* om.save(new_content, format='gif', save_all=True, append_images=frames[1:],
\*         duration=..., loop=...)
GifSave(frames, duration, loop) ==
    [frames |-> frames, durations |-> [i \in 1 .. Len(frames) |-> duration], loop |-> loop]

\* Image.open(new_content)
ImageOpen(content) ==
    LET size == content.frames[1].size
    IN  [format |-> "GIF", size |-> size,
         frames |-> [i \in 1 .. Len(content.frames) |->
                        [box |-> FullBox(size), data |-> content.frames[i].pix,
                         palette |-> Some(1), duration |-> content.durations[i]]],
         loop |-> content.loop, cursor |-> 0, tile |-> TRUE, palette |-> Some(1)]

\* ---- the dispatcher -------------------------------------------------------
\* img.format.lower()
Lower(s) == CASE s = "GIF" -> "gif" [] s = "PNG" -> "png" [] OTHER -> s

\* slip: the format compared without lower()
IsGifCaseSensitive(img) == img.format = "gif"

IsGif(img) == Lower(img.format) = "gif"

\* list(ImageSequence.Iterator(img)): the frames sought in turn, and how many
RECURSIVE Enumerate(_, _, _)
Enumerate(img, i, count) ==
    IF ~CanSeek(img, i) THEN [im |-> img, count |-> count]
    ELSE Enumerate(Seek(img, i), i + 1, count + 1)

make_factory_for_image_processing(img) ==
    IF IsGif(img)
    THEN LET frames == Enumerate(img, IteratorStart(img), 0)
         IN  [factory |-> IF frames.count > 1 THEN "animated" ELSE "default",
              img |-> frames.im]
    ELSE [factory |-> "default", img |-> img]

\* ---- the input animations ------------------------------------------------
FrameKinds == {"full", "hole", "left", "right"}
Variants == {"gif", "gif_bare", "png"}

KindBox(kind) ==
    CASE kind = "left" -> <<0, 0, Canvas[1] - 1, Canvas[2]>>
      [] kind = "right" -> <<1, 0, Canvas[1], Canvas[2]>>
      [] OTHER -> FullBox(Canvas)

\* frame i of an input animation: it paints colour i + 1
RawFrame(kind, variant, i) ==
    [box |-> KindBox(kind),
     data |-> [p \in BoxCoords(KindBox(kind)) |->
                 IF kind = "hole" /\ p[1] = Canvas[1] - 1 THEN 0 ELSE i + 1],
     palette |-> CASE variant = "gif" -> Some(1)
                   [] variant = "gif_bare" -> IF i = 0 THEN Some(1) ELSE None
                   [] OTHER -> None,
     duration |-> IF variant = "gif_bare" THEN None ELSE Some(10 * (i + 1))]

DecodedImage(kinds, variant, cursor) ==
    LET frames == [i \in 1 .. Len(kinds) |-> RawFrame(kinds[i], variant, i - 1)]
    IN  [format |-> IF variant = "png" THEN "PNG" ELSE "GIF",
         size |-> Canvas,
         frames |-> frames,
         loop |-> IF variant = "gif_bare" THEN None ELSE Some(0),
         cursor |-> cursor,
         tile |-> TRUE,
         palette |-> frames[cursor + 1].palette]

\* frame geometry and transparency vary under the plain GIF metadata; the other
\* metadata variants come with complete opaque frames
Admitted(kinds, variant) ==
    variant = "gif" \/ \A i \in 1 .. Len(kinds) : kinds[i] = "full"

\* ---- state ---------------------------------------------------------------
VARIABLES
    src,      \* the decoded image the caller supplied (the caller's object)
    factory,  \* "none", "default" (DefaultImageProcessingFactory), "animated"
    held,     \* the factory's self.img
    aliased,  \* self.img is still the caller's object
    last,     \* what the last operation did
    orig      \* the image as supplied

vars == <<src, factory, held, aliased, last, orig>>

NoLast == [op |-> "none", size |-> None, centering |-> None, box |-> None,
           entry |-> None, mode |-> "", composited |-> <<>>, all_frames |-> <<>>,
           err |-> "", content |-> None]

Init ==
    /\ \E n \in 1 .. MaxFrames :
       \E kinds \in [1 .. n -> FrameKinds] :
       \E variant \in Variants :
       \E cursor \in 0 .. n - 1 :
          /\ Admitted(kinds, variant)
          /\ src = DecodedImage(kinds, variant, cursor)
    /\ factory = "none"
    /\ held = src
    /\ aliased = TRUE
    /\ last = NoLast
    /\ orig = src

\* the caller's object follows self.img while they are the same object
SrcAfter(img) == IF aliased THEN img ELSE src

\* ---- construction --------------------------------------------------------
Dispatch ==
    /\ factory = "none"
    /\ LET r == make_factory_for_image_processing(src)
       IN  /\ factory' = r.factory
           /\ src' = r.img
           /\ held' = r.img
    /\ last' = [NoLast EXCEPT !.op = "make_factory", !.entry = Some(src)]
    /\ UNCHANGED <<aliased, orig>>

\* IImageProcessingFactory.__init__ called by the caller on a class of its choice
Construct ==
    /\ factory = "none"
    /\ \E cls \in {"default", "animated"} : factory' = cls
    /\ held' = src
    /\ last' = [NoLast EXCEPT !.op = "__init__", !.entry = Some(src)]
    /\ UNCHANGED <<src, aliased, orig>>

\* ---- AnimatedGifImageProcessingFactory ------------------------------------
\* lines 145-149 (and 153-157, 161-165): encode the frames, reopen the result
EncodeAndReopen(op, size, centering, box, r) ==
    LET content == GifSave(r.all_frames, InfoDuration(r.im), InfoLoop(r.im))
    IN  /\ last' = [op |-> op, size |-> size, centering |-> centering, box |-> box,
                    entry |-> Some(held), mode |-> r.mode, composited |-> r.composited,
                    all_frames |-> r.all_frames, err |-> r.err,
                    content |-> IF r.err = "" THEN Some(content) ELSE None]
        /\ src' = SrcAfter(r.im)
        /\ IF r.err = ""
           THEN held' = ImageOpen(content) /\ aliased' = FALSE
           ELSE held' = r.im /\ UNCHANGED aliased
        /\ UNCHANGED <<factory, orig>>

\* an exception ends the request: nothing more is called on the factory
Ready(cls) == factory = cls /\ last.err = ""

Animated_crop ==
    /\ Ready("animated")
    /\ \E size \in TargetSizes, centering \in Centerings :
       \E r \in {thumbnails(held, size, centering)} :
          EncodeAndReopen("crop", Some(size), centering, None, r)

Animated_arbitrary_cropping ==
    /\ Ready("animated")
    /\ \E box \in CropBoxes :
       \E r \in {cropped_thumbnails(held, box)} :
          EncodeAndReopen("arbitrary_cropping", None, None, box, r)

Animated_make_thumbnail ==
    /\ Ready("animated")
    /\ \E size \in TargetSizes :
       \E r \in {thumbnails(held, size, None)} :
          EncodeAndReopen("make_thumbnail", Some(size), None, None, r)

Animated_save_to_the_buffer ==
    /\ Ready("animated")
    /\ \E r \in {clone_gif_thumbnails(held)} :
       LET content == GifSave(r.all_frames, InfoDuration(r.im), InfoLoop(r.im))
       IN  /\ last' = [op |-> "save_to_the_buffer", size |-> None, centering |-> None,
                       box |-> None, entry |-> Some(held), mode |-> r.mode,
                       composited |-> r.composited, all_frames |-> r.all_frames,
                       err |-> r.err,
                       content |-> IF r.err = "" THEN Some(content) ELSE None]
           /\ held' = r.im
           /\ src' = SrcAfter(r.im)
    /\ UNCHANGED <<factory, aliased, orig>>

\* ---- DefaultImageProcessingFactory ----------------------------------------
\* the image ImageOps.fit returns: a new single-frame image, info copied
NewImage(from, frame) ==
    [format |-> "", size |-> frame.size,
     frames |-> <<[box |-> FullBox(frame.size), data |-> frame.pix,
                   palette |-> from.palette, duration |-> InfoDuration(from)]>>,
     loop |-> InfoLoop(from), cursor |-> 0, tile |-> FALSE, palette |-> from.palette]

Default_crop ==
    /\ Ready("default")
    /\ \E size \in TargetSizes, centering \in Centerings :
          LET t == ImageOps_fit(ConvertRGBA(held), size, centering)
              err == IF t.ok THEN "" ELSE IF Truthy(centering) THEN "ValueError" ELSE "TypeError"
          IN  /\ last' = [NoLast EXCEPT !.op = "crop", !.size = Some(size),
                                        !.centering = centering, !.entry = Some(held),
                                        !.all_frames = IF t.ok THEN <<t.frame>> ELSE <<>>,
                                        !.err = err]
              /\ IF t.ok
                 THEN /\ held' = NewImage(held, t.frame)
                      /\ src' = SrcAfter(Load(held))
                      /\ aliased' = FALSE
                 ELSE /\ held' = IF Truthy(centering) THEN Load(held) ELSE held
                      /\ src' = SrcAfter(held')
                      /\ UNCHANGED aliased
    /\ UNCHANGED <<factory, orig>>

\* self.img.thumbnail(size, method): in place
Default_make_thumbnail ==
    /\ Ready("default")
    /\ \E size \in TargetSizes :
          LET ns == ThumbnailSize(held.size, size)
              t == Thumbnail(ConvertRGBA(held), size)
          IN  /\ last' = [NoLast EXCEPT !.op = "make_thumbnail", !.size = Some(size),
                                        !.entry = Some(held),
                                        !.all_frames = IF t.ok THEN <<t.frame>> ELSE <<>>,
                                        !.err = IF t.ok THEN "" ELSE "ValueError"]
              /\ held' = IF ns = held.size THEN held
                         ELSE IF ~t.ok THEN Load(held)
                         ELSE [Load(held) EXCEPT
                                 !.size = ns,
                                 !.frames[held.cursor + 1] =
                                     [@ EXCEPT !.box = FullBox(ns), !.data = t.frame.pix]]
              /\ src' = SrcAfter(held')
    /\ UNCHANGED <<factory, aliased, orig>>

Default_save_to_the_buffer ==
    /\ Ready("default")
    /\ last' = [NoLast EXCEPT !.op = "save_to_the_buffer", !.entry = Some(held),
                              !.all_frames = <<ConvertRGBA(held)>>,
                              !.content = Some([frames |-> <<ConvertRGBA(held)>>,
                                                durations |-> <<None>>,
                                                loop |-> None])]
    /\ held' = Load(held)
    /\ src' = SrcAfter(held')
    /\ UNCHANGED <<factory, aliased, orig>>

Next ==
    \/ Dispatch
    \/ Construct
    \/ Animated_crop
    \/ Animated_arbitrary_cropping
    \/ Animated_make_thumbnail
    \/ Animated_save_to_the_buffer
    \/ Default_crop
    \/ Default_make_thumbnail
    \/ Default_save_to_the_buffer

Spec == Init /\ [][Next]_vars

\* ---- properties ------------------------------------------------------------
AnimatedOps == {"crop", "make_thumbnail", "arbitrary_cropping", "save_to_the_buffer"}

\* an operation of the animated processor has just run
AnimatedRan == factory = "animated" /\ last.op \in AnimatedOps

Entry == last.entry[1]

\* what a caller can see of an image: size, frames (pixels, palettes), cursor, palette
Visible(img) == [size |-> img.size, frames |-> img.frames, cursor |-> img.cursor,
                 palette |-> img.palette]

RegionDimensions(box) == <<box[3] - box[1], box[4] - box[2]>>

\* C1 as amended: the dispatcher returns the animated processor exactly when the
\* declared format is GIF (case-insensitively) and the image has more than one
\* frame; every other image gets the single-frame processor.
C1_DispatchOnFormatAndFrameCount ==
    last.op = "make_factory" =>
        (factory = "animated" <=> (orig.format \in {"GIF", "gif"} /\ NumFrames(orig) > 1))

\* C1 as stated: the dispatcher routes on frame count alone, whatever the format.
C1_DispatchOnFrameCountAlone ==
    last.op = "make_factory" =>
        /\ NumFrames(orig) > 1 => factory = "animated"
        /\ NumFrames(orig) = 1 => factory = "default"

C1_Witness ==
    last.op = "make_factory" /\ factory = "default" /\ NumFrames(orig) > 1

\* C2: every animated operation that completes encodes exactly as many frames as
\* the input animation has, and the reopened image keeps that count, whichever
\* frame the cursor was on when the operation started.
C2_FrameCountPreserved ==
    (AnimatedRan /\ last.err = "") =>
        /\ Len(last.content[1].frames) = NumFrames(orig)
        /\ Len(last.composited) = NumFrames(orig)
        /\ NumFrames(held) = NumFrames(orig)

C2_Witness ==
    /\ AnimatedRan /\ last.err = "" /\ last.op = "save_to_the_buffer"
    /\ ~aliased
    /\ NumFrames(orig) = MaxFrames
    /\ orig.cursor = 1
    /\ Len(last.content[1].frames) = MaxFrames

\* C3: the delays and loop count the animated encoder writes equal the source
\* animation's per-frame delays and loop count.
C3_TimingRoundTrips ==
    (AnimatedRan /\ last.err = "") =>
        /\ last.content[1].durations =
               [i \in 1 .. NumFrames(orig) |-> orig.frames[i].duration]
        /\ last.content[1].loop = orig.loop

\* C4: crop on the animated processor yields frames of exactly the target size,
\* for every centering including an absent or empty one.
C4_CropYieldsTargetSize ==
    (AnimatedRan /\ last.op = "crop" /\ last.err = "") =>
        \A i \in 1 .. Len(last.all_frames) : last.all_frames[i].size = last.size[1]

\* C5: crop and make_thumbnail with a target width or height <= 0 fail before any
\* processing: an error, no frame composited, the held image and the source as
\* they were.
C5_InvalidSizeRejectedFirst ==
    (last.op \in {"crop", "make_thumbnail"} /\ BadSize(last.size[1])) =>
        /\ last.err # ""
        /\ last.composited = <<>>
        /\ Visible(held) = Visible(Entry)

\* C6: the caller's decoded image is as it was supplied: size, pixels, palettes
\* and cursor.
C6_SourceReadOnly == Visible(src) = Visible(orig)

\* C7: the verdict is 'partial' exactly when some frame of the animation, at any
\* index, has update-region dimensions different from the canvas size, wherever
\* the cursor was when the analysis started (animations of several frames; a
\* single frame counts as full).
C7_VerdictClassifiesAnimation ==
    (AnimatedRan /\ last.err = "" /\ NumFrames(Entry) > 1) =>
        (last.mode = "partial" <=>
            \E i \in 1 .. NumFrames(Entry) :
                RegionDimensions(Entry.frames[i].box) # Entry.size)

\* C8: in partial mode the first composited frame is the first raw frame's opaque
\* pixels over a transparent canvas.
C8_FirstFrameOverTransparency ==
    (AnimatedRan /\ last.mode = "partial" /\ Len(last.composited) >= 1) =>
        last.composited[1].pix = Decoded(Entry.frames, Entry.size, 0)

\* C9: in partial mode, for every frame after the first, the composited pixel at
\* a coordinate outside the frame's update region equals the previous composited
\* (untransformed, canvas-sized) frame's pixel there, and inside the region the
\* frame's own pixel shows wherever it is not transparent.
C9_CarryForward ==
    (AnimatedRan /\ last.mode = "partial") =>
        \A i \in 2 .. Len(last.composited) :
            /\ last.composited[i].size = Entry.size
            /\ \A p \in Coords(Entry.size) :
                  IF InBox(p, Entry.frames[i].box)
                  THEN Entry.frames[i].data[p] # 0 =>
                          last.composited[i].pix[p] = Entry.frames[i].data[p]
                  ELSE last.composited[i].pix[p] = last.composited[i - 1].pix[p]

\* a transformed partial-mode pass where a carried-forward pixel is opaque
C9_Witness ==
    /\ AnimatedRan /\ last.mode = "partial" /\ last.err = ""
    /\ last.op \in {"crop", "make_thumbnail", "arbitrary_cropping"}
    /\ \E i \in 2 .. Len(last.composited) :
          /\ last.all_frames[i - 1].size # Entry.size
          /\ \E p \in Coords(Entry.size) :
                /\ ~InBox(p, Entry.frames[i].box)
                /\ last.composited[i].pix[p] # 0

\* C10: in full mode every composited frame equals the corresponding decoded
\* frame pixel for pixel, whatever the running canvas holds.
C10_FullModePassThrough ==
    (AnimatedRan /\ last.mode = "full") =>
        \A i \in 1 .. Len(last.composited) :
            last.composited[i].pix = Decoded(Entry.frames, Entry.size, i - 1)

\* a full-mode pass where a frame is transparent over an opaque earlier pixel
C10_Witness ==
    /\ AnimatedRan /\ last.mode = "full"
    /\ \E i \in 2 .. Len(last.composited) : \E p \in Coords(Entry.size) :
          last.composited[i].pix[p] = 0 /\ last.composited[i - 1].pix[p] # 0

====
